---- MODULE Spec2Model ----
\* Exception/trap layer of m1n1 (src/src/exception.c): the four handlers
\* exc_sync, exc_irq, exc_fiq, exc_serr, the guard cell exc_guard, the
\* exception counter exc_count and the fault reporter print_regs.
\*
\* 64-bit values are kept as four 16-bit limbs <<w3, w2, w1, w0>> (most
\* significant first), so that the poison constant and address arithmetic
\* modulo 2^64 are exact.  32-bit instruction words are two limbs <<hi, lo>>.
EXTENDS Integers, Sequences, FiniteSets, TLC

VARIABLES
    CurrentEL,      \* CurrentEL register: 0x4 (EL1) or 0x8 (EL2); fixed at boot
    ecore,          \* is_ecore(): the executing core is an efficiency core
    mem,            \* program text: address -> 32-bit instruction word
    in_gl12,        \* in_gl12(): the core executes in the guest (GXF) context
    ASPSR_GL1,      \* SYS_IMP_APL_ASPSR_GL1
    SPSR_EL1,       \* saved status register (SPSR_EL2 when running at EL2, E2H)
    ELR_EL1,        \* return-address register (ELR_EL2 when running at EL2)
    ESR_EL1,        \* syndrome register (ESR_EL2 when running at EL2)
    SPSR_EL12,      \* guest-shadow status register
    ELR_EL12,       \* guest-shadow return-address register
    ESR_EL12,       \* guest-shadow syndrome register
    L2C_ERR_STS,    \* SYS_IMP_APL_L2C_ERR_STS, write-one-to-clear
    CNTP_CTL_EL0,   \* physical timer control
    CNTV_CTL_EL0,   \* virtual timer control
    CNTP_CTL_EL02,  \* guest physical timer control
    CNTV_CTL_EL02,  \* guest virtual timer control
    PMCR0,          \* SYS_IMP_APL_PMCR0 as [imode, iact]
    UPMCR0,         \* SYS_IMP_APL_UPMCR0 as [imode]
    UPMSR,          \* SYS_IMP_APL_UPMSR as [iact]
    regs,           \* the save area the vector stub hands to the handler
    exc_guard,      \* volatile enum exc_guard_t exc_guard
    exc_count,      \* volatile int exc_count
    pc,             \* "run": the interrupted code runs; "handled": a handler
                    \* has returned to the vector stub; "halted":
                    \* flush_and_reboot was called
    handler,        \* the handler that ran: "none", "sync", "irq", "fiq", "serr"
    entry,          \* the machine state that handler was entered with
    out,            \* what that handler did, in program order
    arm             \* bookkeeping of the guard control surface since the
                    \* caller last wrote exc_guard

vars == <<CurrentEL, ecore, mem, in_gl12, ASPSR_GL1, SPSR_EL1, ELR_EL1, ESR_EL1,
          SPSR_EL12, ELR_EL12, ESR_EL12, L2C_ERR_STS, CNTP_CTL_EL0, CNTV_CTL_EL0,
          CNTP_CTL_EL02, CNTV_CTL_EL02, PMCR0, UPMCR0,
          UPMSR, regs, exc_guard, exc_count, pc, handler, entry, out, arm>>

------------------------------------------------------------------------------
\* Bounds of the model.

\* exc_sync is not taken once exc_count has reached MaxCount.
MaxCount == 3

------------------------------------------------------------------------------
\* 64-bit arithmetic on limbs.

Limb == 2^16

Zero64 == <<0, 0, 0, 0>>

\* A small number as a 64-bit value.
U64(n) == <<0, 0, n \div Limb, n % Limb>>

\* v + n modulo 2^64, for 0 <= n < 2^16.
Add64(v, n) ==
    LET s0 == v[4] + n
        s1 == v[3] + (s0 \div Limb)
        s2 == v[2] + (s1 \div Limb)
        s3 == v[1] + (s2 \div Limb)
    IN  <<s3 % Limb, s2 % Limb, s1 % Limb, s0 % Limb>>

\* spsr & 0xf
ModeNibble(spsr) == spsr[4] % 16

\* (esr >> 26) & 0x3f
ExcClass(esr) == (esr[3] \div 1024) % 64

\* esr & 0xffff
HvcImm(esr) == esr[4]

\* insn & 0x1f
DestReg(insn) == insn[2] % 32

\* A syndrome value with exception class ec and low 16 bits iss (IL bit set).
MkEsr(ec, iss) == <<0, 0, ec * 1024 + 512, iss>>

------------------------------------------------------------------------------
\* Program constants.

\* 0xacce5515abad1dea
POISON == <<44238, 21781, 43949, 7658>>

\* The return trampolines (addresses of el0_ret and el1_ret).
el0_ret == <<0, 0, 2049, 256>>
el1_ret == <<0, 0, 2049, 512>>

\* 0x09: EL2h
SPSR_EL2h == <<0, 0, 0, 9>>

\* enum exc_guard_t
GUARD_OFF == 0
GUARD_SKIP == 1
GUARD_MARK == 2
GUARD_RETURN == 3
GUARD_TYPE_MASK == 255
GUARD_SILENT == 256

\* exc_guard & GUARD_TYPE_MASK
GuardType(g) == g % (GUARD_TYPE_MASK + 1)

\* exc_guard & GUARD_SILENT
GuardSilent(g) == (g \div GUARD_SILENT) % 2 = 1

\* Exception classes tested by exc_sync.
EC_BRK == 60
EC_HVC == 22

\* in_el2(): (CurrentEL >> 2) == 2
in_el2 == CurrentEL \div 4 = 2

\* Number of quadwords of the save area: sp = regs + 256.
FrameSlots == 256 \div 8

------------------------------------------------------------------------------
\* Diagnostic decoder.

\* An unassigned table entry (NULL).
Null == "(null)"

m_table ==
    [n \in 0..15 |->
        CASE n = 0 -> "EL0t" [] n = 4 -> "EL1t" [] n = 5 -> "EL1h"
          [] n = 8 -> "EL2t" [] n = 9 -> "EL2h" [] OTHER -> Null]

gl_m_table ==
    [n \in 0..15 |->
        CASE n = 0 -> "GL0t" [] n = 4 -> "GL1t" [] n = 5 -> "GL1h"
          [] n = 8 -> "GL2t" [] n = 9 -> "GL2h" [] OTHER -> Null]

\* ec_table[0x40], entry n of the C table at index n + 1.
ec_table_entries ==
    <<
        "unknown", "wf*", Null, "c15 mcr/mrc", "c15 mcrr/mrrc", "c14 mcr/mrc",
        "ldc/stc", "FP off", "VMRS access", "PAC off", "ld/st64b", Null,
        "c14 mrrc", "branch target", "illegal state", Null, Null, "svc in a32",
        "hvc in a32", "smc in a32", Null, "svc in a64", "hvc in a64", "smc in a64",
        "other mcr/mrc/sys", "SVE off", "eret", Null, "PAC failure", Null, Null,
        Null, "instruction abort (lower)", "instruction abort (current)",
        "pc misaligned", Null, "data abort (lower)", "data abort (current)",
        "sp misaligned", Null, "FP exception (a32)", Null, Null, Null,
        "FP exception (a64)", Null, Null, "SError", "BP (lower)", "BP (current)",
        "step (lower)", "step (current)", "watchpoint (lower)",
        "watchpoint (current)", Null, Null, "bkpt (a32)", Null,
        "vector catch (a32)", Null, "brk (a64)", Null, Null, Null
    >>

ec_table == [n \in 0..63 |-> ec_table_entries[n + 1]]

\* get_exception_source reading the auxiliary status outside the guest
\* context too.
get_exception_source_AnyContext(m, el12) ==
    LET spsr   == IF el12 = 1 THEN m.SPSR_EL12 ELSE m.SPSR_EL1
        aspsr  == m.ASPSR_GL1
        m_desc == IF aspsr % 2 = 1 THEN gl_m_table[ModeNibble(spsr)]
                                   ELSE m_table[ModeNibble(spsr)]
    IN  IF m_desc = Null THEN "?" ELSE m_desc

\* get_exception_source(el12) on machine state m.
get_exception_source(m, el12) ==
    LET spsr   == IF el12 = 1 THEN m.SPSR_EL12 ELSE m.SPSR_EL1
        aspsr  == IF m.in_gl12 THEN m.ASPSR_GL1 ELSE 0
        m_desc == IF aspsr % 2 = 1 THEN gl_m_table[ModeNibble(spsr)]
                                   ELSE m_table[ModeNibble(spsr)]
    IN  IF m_desc = Null THEN "?" ELSE m_desc

\* get_exception_level() on machine state m.
get_exception_level(m) ==
    IF m.in_gl12
    THEN IF m.CurrentEL = 4 THEN "GL1" ELSE IF m.CurrentEL = 8 THEN "GL2" ELSE "?"
    ELSE IF m.CurrentEL = 4 THEN "EL1" ELSE IF m.CurrentEL = 8 THEN "EL2" ELSE "?"

------------------------------------------------------------------------------
\* Statements.  A handler is a composition of statements over a machine
\* record m; m.out lists what the handler did, in program order.

Ev(op, what, txt, val) == [op |-> op, what |-> what, txt |-> txt, val |-> val]

Emit(m, e) == [m EXCEPT !.out = Append(@, e)]

\* printf / uart_puts of one line; val is the value the line shows.
Printf(m, what, txt, val) == Emit(m, Ev("printf", what, txt, val))
UartPuts(m, what) == Emit(m, Ev("uart_puts", what, "", Zero64))

\* exception_initialize sets HCR_EL2.E2H when in_el2(): at EL2 the EL1 names
\* of the status, return-address and syndrome registers access the EL2
\* registers, so each pair is one register.
Phys(reg) ==
    CASE reg = "SPSR_EL2" -> "SPSR_EL1"
      [] reg = "ELR_EL2" -> "ELR_EL1"
      [] reg = "ESR_EL2" -> "ESR_EL1"
      [] OTHER -> reg

\* mrs(reg)
Mrs(m, reg) == m[Phys(reg)]

\* msr(reg, v)
Msr(m, reg, v) == Emit([m EXCEPT ![Phys(reg)] = v], Ev("msr", reg, "", v))

\* regs[i] = v
StoreReg(m, i, v) ==
    Emit([m EXCEPT !.regs = [@ EXCEPT ![i] = v]], Ev("store", "regs", "", U64(i)))

\* sysop("isb"); sysop("dsb sy");
Barriers(m) == Emit(m, Ev("sysop", "isb; dsb sy", "", Zero64))

------------------------------------------------------------------------------
\* Fault reporter.

\* The lines print_regs prints before the L2C block.
PrintRegsHead(m, el12) ==
    LET spsr == IF el12 = 1 THEN m.SPSR_EL12 ELSE m.SPSR_EL1
        elr  == IF el12 = 1 THEN m.ELR_EL12 ELSE m.ELR_EL1
        esr  == IF el12 = 1 THEN m.ESR_EL12 ELSE m.ESR_EL1
        desc == ec_table[ExcClass(esr)]
        m1  == Printf(m, "Exception taken from", get_exception_source(m, el12), Zero64)
        m2  == Printf(m1, "Running in", get_exception_level(m), Zero64)
        m3  == Printf(m2, "MPIDR", "", Zero64)
        m4  == Printf(m3, "Registers", "", Zero64)
        m5  == Printf(m4, "x0-x3", "", m.regs[0])
        m6  == Printf(m5, "x4-x7", "", m.regs[4])
        m7  == Printf(m6, "x8-x11", "", m.regs[8])
        m8  == Printf(m7, "x12-x15", "", m.regs[12])
        m9  == Printf(m8, "x16-x19", "", m.regs[16])
        m10 == Printf(m9, "x20-x23", "", m.regs[20])
        m11 == Printf(m10, "x24-x27", "", m.regs[24])
        m12 == Printf(m11, "x28-x30", "", m.regs[28])
        m13 == Printf(m12, "PC", "", elr)
        m14 == Printf(m13, "SP", "", Zero64)
        m15 == Printf(m14, "SPSR_EL1", "", spsr)
        m16 == IF m.in_gl12 THEN Printf(m15, "ASPSR", "", U64(m.ASPSR_GL1)) ELSE m15
        m17 == Printf(m16, "FAR_EL1", "", Zero64)
    IN  Printf(m17, "ESR_EL1", IF desc = Null THEN "?" ELSE desc, esr)

\* AckL2C writing zero whatever was read.
AckL2C_Zero(m, v) == Emit(m, Ev("msr", "L2C_ERR_STS", "", Zero64))

\* msr(SYS_IMP_APL_L2C_ERR_STS, v): the register is write-one-to-clear, so
\* the bits written as one are cleared ("Clear the flag bits").
AckL2C(m, v) ==
    Emit([m EXCEPT !.L2C_ERR_STS = IF v = @ THEN Zero64 ELSE @],
         Ev("msr", "L2C_ERR_STS", "", v))

\* print_regs(regs, el12)
print_regs(m, el12) ==
    LET l2c_err_sts == m.L2C_ERR_STS
        h  == PrintRegsHead(m, el12)
        a1 == Printf(h, "L2C_ERR_STS", "", l2c_err_sts)
        a2 == Printf(a1, "L2C_ERR_ADR", "", Zero64)
        a3 == Printf(a2, "L2C_ERR_INF", "", Zero64)
        a4 == AckL2C(a3, l2c_err_sts)
    IN  IF m.ecore
        THEN Printf(Printf(Printf(a4, "E_LSU_ERR_STS", "", Zero64),
                           "E_FED_ERR_STS", "", Zero64), "E_MMU_ERR_STS", "", Zero64)
        ELSE Printf(Printf(Printf(a4, "LSU_ERR_STS", "", Zero64),
                           "FED_ERR_STS", "", Zero64), "MMU_ERR_STS", "", Zero64)

------------------------------------------------------------------------------
\* Synchronous exception handler.

\* read32(addr): the instruction word at addr.
read32(addr) == mem[addr]

\* return;
Return(m, what) == [Emit(m, Ev("return", what, "", Zero64)) EXCEPT !.done = TRUE]

\* flush_and_reboot(): flushes the console and restarts the machine; control
\* does not come back to the handler.
flush_and_reboot(m) ==
    [Emit(m, Ev("call", "flush_and_reboot", "", Zero64))
        EXCEPT !.done = TRUE, !.halted = TRUE]

\* (spsr & 0xf) == 0 && ((esr >> 26) & 0x3f) == 0x3c
IsEL0Return(spsr, esr) == ModeNibble(spsr) = 0 /\ ExcClass(esr) = EC_BRK

\* in_el2() && !in_gl12() && (spsr & 0xf) == 5 && ((esr >> 26) & 0x3f) == 0x16
IsHypercall(m, spsr, esr) ==
    in_el2 /\ ~m.in_gl12 /\ ModeNibble(spsr) = 5 /\ ExcClass(esr) = EC_HVC

\* EL0Return without the write of the status register.
EL0Return_KeepsSpsr(m) == Return(Msr(m, "ELR_EL1", el0_ret), "el0_ret")

\* The clean EL0 return: redirect to the el0_ret thunk.
EL0Return(m) ==
    Return(Msr(Msr(m, "SPSR_EL1", SPSR_EL2h), "ELR_EL1", el0_ret), "el0_ret")

\* EL1Return aimed at the el0_ret thunk.
EL1Return_ToEL0(m) ==
    Return(Msr(Msr(m, "SPSR_EL2", SPSR_EL2h), "ELR_EL2", el0_ret), "el1_ret")

\* case 0 of the hypercall switch: redirect to the el1_ret thunk.
EL1Return(m) ==
    Return(Msr(Msr(m, "SPSR_EL2", SPSR_EL2h), "ELR_EL2", el1_ret), "el1_ret")

\* RelayEL1 without el12 = 1.
RelayEL1_NoFlag(m, imm) ==
    LET m1 == IF ~GuardSilent(m.exc_guard)
              THEN Printf(m, "EL1 Exception", "", U64(imm)) ELSE m
        m3 == Msr(m1, "SPSR_EL2", Mrs(m1, "SPSR_EL12"))
    IN  Msr(m3, "ELR_EL2", Mrs(m3, "ELR_EL12"))

\* RelayEL1 without the copy of the guest return address.
RelayEL1_NoElrCopy(m, imm) ==
    LET m1 == IF ~GuardSilent(m.exc_guard)
              THEN Printf(m, "EL1 Exception", "", U64(imm)) ELSE m
        m2 == [m1 EXCEPT !.el12 = 1]
    IN  Msr(m2, "SPSR_EL2", Mrs(m2, "SPSR_EL12"))

\* case 0x10 ... 0x1f: short-circuit the hypercall and handle the EL1 exception.
RelayEL1(m, imm) ==
    LET m1 == IF ~GuardSilent(m.exc_guard)
              THEN Printf(m, "EL1 Exception", "", U64(imm)) ELSE m
        m2 == [m1 EXCEPT !.el12 = 1]
        m3 == Msr(m2, "SPSR_EL2", Mrs(m2, "SPSR_EL12"))
    IN  Msr(m3, "ELR_EL2", Mrs(m3, "ELR_EL12"))

\* default: of the hypercall switch.
UnknownHvc(m, imm) == Printf(m, "Unknown HVC", "", U64(imm))

\* HvcSwitch with the relay range one too wide at both ends.
HvcSwitch_WideRelay(m, imm) ==
    CASE imm = 0 -> EL1Return(m)
      [] imm \in 15..32 -> RelayEL1(m, imm)
      [] OTHER -> UnknownHvc(m, imm)

\* The switch on the hypercall immediate.
HvcSwitch(m, imm) ==
    CASE imm = 0 -> EL1Return(m)
      [] imm \in 16..31 -> RelayEL1(m, imm)
      [] OTHER -> UnknownHvc(m, imm)

\* The if/else that follows the EL0 return test.
RelayStage(m, spsr, esr) ==
    IF IsHypercall(m, spsr, esr)
    THEN HvcSwitch(m, HvcImm(Mrs(m, "ESR_EL2")))
    ELSE IF ~GuardSilent(m.exc_guard) THEN UartPuts(m, "Exception: SYNC") ELSE m

\* ReportStage without the register dump.
ReportStage_NoDump(m) == Barriers(m)

\* The barriers and the report between the relay and the guard.
ReportStage(m) ==
    LET b == Barriers(m)
    IN  IF ~GuardSilent(b.exc_guard) THEN print_regs(b, b.el12) ELSE b

\* Recover without exc_count++.
Recover_NoCount(m, elr) ==
    LET m2 == IF ~GuardSilent(m.exc_guard)
              THEN Printf(m, "Recovering from exception", "", elr) ELSE m
        m3 == Msr(m2, "ELR_EL1", elr)
    IN  Return(Barriers(m3), "end")

\* Recover without the write of the return-address register.
Recover_NoCommit(m, elr) ==
    LET m1 == [m EXCEPT !.exc_count = @ + 1]
        m2 == IF ~GuardSilent(m1.exc_guard)
              THEN Printf(m1, "Recovering from exception", "", elr) ELSE m1
    IN  Return(Barriers(m2), "end")

\* exc_count++ and what follows it.
Recover(m, elr) ==
    LET m1 == [m EXCEPT !.exc_count = @ + 1]
        m2 == IF ~GuardSilent(m1.exc_guard)
              THEN Printf(m1, "Recovering from exception", "", elr) ELSE m1
        m3 == Msr(m2, "ELR_EL1", elr)
    IN  Return(Barriers(m3), "end")

\* GuardSkip resuming at the faulting instruction itself.
GuardSkip_NoAdvance(m) == Recover(m, Mrs(m, "ELR_EL1"))

\* case GUARD_SKIP
GuardSkip(m) == Recover(m, Add64(Mrs(m, "ELR_EL1"), 4))

\* GuardMark poisoning x0 whatever the instruction names.
GuardMark_Reg0(m) ==
    LET m1 == StoreReg(m, 0, POISON)
    IN  Recover(m1, Add64(Mrs(m1, "ELR_EL1"), 4))

\* GuardMark that also disarms the guard.
GuardMark_Disarms(m) ==
    LET insn == read32(Mrs(m, "ELR_EL1"))
        m1   == StoreReg(m, DestReg(insn), POISON)
        m2   == Emit([m1 EXCEPT !.exc_guard = GUARD_OFF],
                     Ev("store", "exc_guard", "", U64(GUARD_OFF)))
    IN  Recover(m2, Add64(Mrs(m2, "ELR_EL1"), 4))

\* case GUARD_MARK
GuardMark(m) ==
    LET insn == read32(Mrs(m, "ELR_EL1"))
        m1   == StoreReg(m, DestReg(insn), POISON)
    IN  Recover(m1, Add64(Mrs(m1, "ELR_EL1"), 4))

\* GuardReturn leaving the guard armed.
GuardReturn_StaysArmed(m) ==
    LET m1 == StoreReg(m, 0, POISON)
    IN  Recover(m1, m1.regs[30])

\* case GUARD_RETURN
GuardReturn(m) ==
    LET m1  == StoreReg(m, 0, POISON)
        elr == m1.regs[30]
        m2  == Emit([m1 EXCEPT !.exc_guard = GUARD_OFF],
                    Ev("store", "exc_guard", "", U64(GUARD_OFF)))
    IN  Recover(m2, elr)

\* GuardStage with OFF treated as SKIP.
GuardStage_OffSkips(m) ==
    LET type == GuardType(m.exc_guard)
    IN  CASE type = GUARD_MARK -> GuardMark(m)
          [] type = GUARD_RETURN -> GuardReturn(m)
          [] type \in {GUARD_OFF, GUARD_SKIP} -> GuardSkip(m)
          [] OTHER -> flush_and_reboot(m)

\* switch (exc_guard & GUARD_TYPE_MASK)
GuardStage(m) ==
    LET type == GuardType(m.exc_guard)
    IN  CASE type = GUARD_SKIP -> GuardSkip(m)
          [] type = GUARD_MARK -> GuardMark(m)
          [] type = GUARD_RETURN -> GuardReturn(m)
          [] OTHER -> flush_and_reboot(m)

\* void exc_sync(u64 *regs), from the machine state m at entry.
exc_sync_body(m) ==
    LET spsr == Mrs(m, "SPSR_EL1")
        esr  == Mrs(m, "ESR_EL1")
    IN  IF IsEL0Return(spsr, esr)
        THEN EL0Return(m)
        ELSE LET r == RelayStage(m, spsr, esr)
             IN  IF r.done THEN r ELSE GuardStage(ReportStage(r))

------------------------------------------------------------------------------
\* IRQ, FIQ and SError handlers.

\* void exc_irq(u64 *regs)
exc_irq_body(m) ==
    LET m1 == Printf(m, "Exception: IRQ", get_exception_source(m, 0), Zero64)
        m2 == Printf(m1, "type num mpidr", "", Zero64)
    IN  Return(m2, "end")

\* MaskTimer comparing only the low 16 bits of the control value.
MaskTimer_LowBits(m, reg, line) ==
    IF Mrs(m, reg)[4] = 5 THEN Msr(UartPuts(m, line), reg, U64(7)) ELSE m

\* reg = mrs(T); if (reg == 0x5) { uart_puts(line); msr(T, 7L); }
MaskTimer(m, reg, line) ==
    IF Mrs(m, reg) = U64(5) THEN Msr(UartPuts(m, line), reg, U64(7)) ELSE m

\* The PMC block: reg_clr(SYS_IMP_APL_PMCR0, PMCR0_IACT | PMCR0_IMODE_MASK).
MaskPmc(m) ==
    IF m.PMCR0.imode = "FIQ" /\ m.PMCR0.iact
    THEN Emit([UartPuts(m, "  PMC IRQ, masking")
                  EXCEPT !.PMCR0 = [imode |-> "OFF", iact |-> FALSE]],
              Ev("reg_clr", "PMCR0", "", Zero64))
    ELSE m

\* The UPMC block: reg_clr(SYS_IMP_APL_UPMCR0, UPMCR0_IMODE_MASK).
MaskUpmc(m) ==
    IF m.UPMCR0.imode = "FIQ" /\ m.UPMSR.iact
    THEN Emit([UartPuts(m, "  UPMC IRQ, masking")
                  EXCEPT !.UPMCR0 = [imode |-> "OFF"]],
              Ev("reg_clr", "UPMCR0", "", Zero64))
    ELSE m

\* void exc_fiq(u64 *regs)
exc_fiq_body(m) ==
    LET m1 == Printf(m, "Exception: FIQ", get_exception_source(m, 0), Zero64)
        m2 == MaskTimer(m1, "CNTP_CTL_EL0", "  PHYS timer IRQ, masking")
        m3 == MaskTimer(m2, "CNTV_CTL_EL0", "  VIRT timer IRQ, masking")
        m4 == IF in_el2
              THEN MaskTimer(MaskTimer(m3, "CNTP_CTL_EL02",
                                       "  PHYS EL02 timer IRQ, masking"),
                             "CNTV_CTL_EL02", "  VIRT EL02 timer IRQ, masking")
              ELSE m3
    IN  Return(MaskUpmc(MaskPmc(m4)), "end")

\* exc_serr ending in the halt routine.
exc_serr_body_Reboots(m) ==
    LET m1 == IF ~GuardSilent(m.exc_guard)
              THEN Printf(m, "Exception: SError", "", Zero64) ELSE m
        m2 == Barriers(m1)
        m3 == IF ~GuardSilent(m2.exc_guard) THEN print_regs(m2, 0) ELSE m2
    IN  flush_and_reboot(m3)

\* void exc_serr(u64 *regs)
exc_serr_body(m) ==
    LET m1 == IF ~GuardSilent(m.exc_guard)
              THEN Printf(m, "Exception: SError", "", Zero64) ELSE m
        m2 == Barriers(m1)
        m3 == IF ~GuardSilent(m2.exc_guard) THEN print_regs(m2, 0) ELSE m2
    IN  Return(m3, "end")

------------------------------------------------------------------------------
\* The inputs the model draws from.

\* Saved status values: taken from EL0t, EL1h, EL2h (DAIF set).
SpsrValues == {U64(960), U64(965), U64(969)}

\* Syndromes: brk, hvc #0, #0xf, #0x10, #0x1f, #0x20, data abort (current).
EsrValues ==
    {MkEsr(EC_BRK, 0), MkEsr(37, 16)} \cup {MkEsr(EC_HVC, i) : i \in {0, 15, 16, 31, 32}}

\* Fault addresses in the host: 0x0800fffc (adding 4 carries into the next
\* limb) and 0xfffffffffffffffc (adding 4 wraps to 0).
ElrValues == {<<0, 0, 2048, 65532>>, <<65535, 65535, 65535, 65532>>}

\* Guest-shadow status/return-address/syndrome triples.
GuestValues ==
    IF in_el2
    THEN {[spsr |-> U64(964), elr |-> <<0, 1, 0, 16384>>, esr |-> MkEsr(37, 4)],
          [spsr |-> U64(5), elr |-> <<0, 1, 65535, 65532>>, esr |-> MkEsr(33, 0)]}
    ELSE {[spsr |-> Zero64, elr |-> <<0, 1, 0, 16384>>, esr |-> Zero64]}

\* Every address an exception can return to, in text order.
TextSeq ==
    <<<<0, 0, 2048, 65532>>, <<65535, 65535, 65535, 65532>>,
      <<0, 1, 0, 16384>>, <<0, 1, 65535, 65532>>>>

TextAddrs == {TextSeq[k] : k \in 1..Len(TextSeq)}

\* ldr x<r>, [x1]: 0xf9400020 | r
Ldr(r) == <<63808, 32 + r>>

\* A program text: instruction k loads into register (r0 + k - 1) mod 32.
TextImage(r0) ==
    [a \in TextAddrs |->
        Ldr((r0 + (CHOOSE k \in 1..Len(TextSeq) : TextSeq[k] = a) - 1) % 32)]

\* First destination registers of the program texts considered.
TextBases == {0, 30}

\* The save area as the vector stub fills it: slot i holds a value that
\* names i, slot 30 the link register lr, slot 31 is the padding quadword.
Frame(lr) ==
    [i \in 0..(FrameSlots - 1) |-> IF i = 30 THEN lr ELSE <<4660, 0, 0, i>>]

\* What the rest of the machine looks like when an exception is taken.  The
\* link register of the last case is the first fault address of ElrValues:
\* the fault hits the instruction a call has just returned to.
HwCases ==
    {[in_gl12 |-> FALSE, aspsr |-> 1, l2c |-> Zero64, lr |-> <<0, 0, 2048, 128>>],
     [in_gl12 |-> TRUE, aspsr |-> 1, l2c |-> U64(3), lr |-> <<0, 0, 2049, 64>>],
     [in_gl12 |-> TRUE, aspsr |-> 0, l2c |-> U64(3), lr |-> <<0, 0, 2048, 65532>>]}

SyncInputs ==
    [spsr : SpsrValues, esr : EsrValues, elr : ElrValues, guest : GuestValues,
     hw : HwCases]

AsyncInputs ==
    [spsr : SpsrValues, elr : ElrValues, hw : HwCases]

\* The FIQ sources as exc_fiq finds them.
FiqCases ==
    {[cntp |-> U64(5), cntv |-> U64(5), cntp02 |-> U64(5), cntv02 |-> U64(5),
      pmcr0 |-> [imode |-> "FIQ", iact |-> TRUE],
      upmcr0 |-> [imode |-> "FIQ"], upmsr |-> [iact |-> TRUE]],
     [cntp |-> U64(1), cntv |-> U64(5), cntp02 |-> U64(7), cntv02 |-> U64(1),
      pmcr0 |-> [imode |-> "FIQ", iact |-> FALSE],
      upmcr0 |-> [imode |-> "OFF"], upmsr |-> [iact |-> TRUE]]}

\* Values a caller writes to exc_guard: the four modes and one value outside
\* the enumeration, each with and without GUARD_SILENT.
GuardValues == {t + f : t \in 0..4, f \in {0, GUARD_SILENT}}

------------------------------------------------------------------------------
\* The machine as a record, and back.

Machine ==
    [CurrentEL |-> CurrentEL, ecore |-> ecore, in_gl12 |-> in_gl12,
     ASPSR_GL1 |-> ASPSR_GL1, SPSR_EL1 |-> SPSR_EL1, ELR_EL1 |-> ELR_EL1,
     ESR_EL1 |-> ESR_EL1, SPSR_EL12 |-> SPSR_EL12, ELR_EL12 |-> ELR_EL12,
     ESR_EL12 |-> ESR_EL12, L2C_ERR_STS |-> L2C_ERR_STS,
     CNTP_CTL_EL0 |-> CNTP_CTL_EL0, CNTV_CTL_EL0 |-> CNTV_CTL_EL0,
     CNTP_CTL_EL02 |-> CNTP_CTL_EL02, CNTV_CTL_EL02 |-> CNTV_CTL_EL02,
     PMCR0 |-> PMCR0, UPMCR0 |-> UPMCR0, UPMSR |-> UPMSR, regs |-> regs,
     exc_guard |-> exc_guard, exc_count |-> exc_count, arm |-> arm,
     el12 |-> 0, out |-> <<>>, done |-> FALSE, halted |-> FALSE]

\* Exception entry: the hardware latches the status and return address, the
\* vector stub saves the registers.
Latch(m, i) ==
    [m EXCEPT !.SPSR_EL1 = i.spsr, !.ELR_EL1 = i.elr,
              !.in_gl12 = i.hw.in_gl12, !.ASPSR_GL1 = i.hw.aspsr,
              !.L2C_ERR_STS = i.hw.l2c, !.regs = Frame(i.hw.lr)]

\* Entry of a synchronous exception: the syndrome is latched too; the guest
\* shadows hold whatever the guest left in them.
LatchSync(m, i) ==
    [Latch(m, i) EXCEPT !.ESR_EL1 = i.esr, !.SPSR_EL12 = i.guest.spsr,
                        !.ELR_EL12 = i.guest.elr, !.ESR_EL12 = i.guest.esr]

\* The FIQ sources at entry of exc_fiq.
LatchFiq(m, f) ==
    [m EXCEPT !.CNTP_CTL_EL0 = f.cntp, !.CNTV_CTL_EL0 = f.cntv,
              !.CNTP_CTL_EL02 = f.cntp02, !.CNTV_CTL_EL02 = f.cntv02,
              !.PMCR0 = f.pmcr0, !.UPMCR0 = f.upmcr0, !.UPMSR = f.upmsr]

\* The handler kind ran from entry state e and left r.
Commit(kind, e, r) ==
    /\ in_gl12' = r.in_gl12
    /\ ASPSR_GL1' = r.ASPSR_GL1
    /\ SPSR_EL1' = r.SPSR_EL1
    /\ ELR_EL1' = r.ELR_EL1
    /\ ESR_EL1' = r.ESR_EL1
    /\ SPSR_EL12' = r.SPSR_EL12
    /\ ELR_EL12' = r.ELR_EL12
    /\ ESR_EL12' = r.ESR_EL12
    /\ L2C_ERR_STS' = r.L2C_ERR_STS
    /\ CNTP_CTL_EL0' = r.CNTP_CTL_EL0
    /\ CNTV_CTL_EL0' = r.CNTV_CTL_EL0
    /\ CNTP_CTL_EL02' = r.CNTP_CTL_EL02
    /\ CNTV_CTL_EL02' = r.CNTV_CTL_EL02
    /\ PMCR0' = r.PMCR0
    /\ UPMCR0' = r.UPMCR0
    /\ UPMSR' = r.UPMSR
    /\ regs' = r.regs
    /\ exc_guard' = r.exc_guard
    /\ exc_count' = r.exc_count
    /\ pc' = IF r.halted THEN "halted" ELSE "handled"
    /\ handler' = kind
    /\ entry' = e
    /\ out' = r.out
    /\ UNCHANGED <<CurrentEL, ecore, mem>>

\* The entry record before any handler has run.
NoEntry == [exc_guard |-> GUARD_OFF, exc_count |-> 0]

------------------------------------------------------------------------------
\* The state machine.

Init ==
    /\ CurrentEL \in {4, 8}
    /\ \E r0 \in TextBases : mem = TextImage(r0) /\ ecore = (r0 = 0)
    /\ in_gl12 = FALSE
    /\ ASPSR_GL1 = 0
    /\ SPSR_EL1 = Zero64
    /\ ELR_EL1 = Zero64
    /\ ESR_EL1 = Zero64
    /\ SPSR_EL12 = Zero64
    /\ ELR_EL12 = Zero64
    /\ ESR_EL12 = Zero64
    /\ L2C_ERR_STS = Zero64
    /\ CNTP_CTL_EL0 = Zero64
    /\ CNTV_CTL_EL0 = Zero64
    /\ CNTP_CTL_EL02 = Zero64
    /\ CNTV_CTL_EL02 = Zero64
    /\ PMCR0 = [imode |-> "OFF", iact |-> FALSE]
    /\ UPMCR0 = [imode |-> "OFF"]
    /\ UPMSR = [iact |-> FALSE]
    /\ regs = Frame(Zero64)
    /\ exc_guard = GUARD_OFF
    /\ exc_count = 0
    /\ pc = "run"
    /\ handler = "none"
    /\ entry = NoEntry
    /\ out = <<>>
    /\ arm = [base |-> 0, faults |-> 0, fired |-> FALSE]

\* The exception did not end in a trampoline redirection.
Consumed(r) == r.out # <<>> /\ r.out[Len(r.out)].what \in {"el0_ret", "el1_ret"}

\* A synchronous exception is taken and exc_sync runs to its end.
exc_sync ==
    /\ pc = "run"
    /\ exc_count < MaxCount
    /\ \E i \in SyncInputs :
          LET e == LatchSync(Machine, i)
              r == exc_sync_body(e)
          IN  /\ Commit("sync", e, r)
              /\ arm' = IF Consumed(r) THEN arm
                        ELSE [arm EXCEPT !.faults = @ + 1,
                                         !.fired = @ \/ GuardType(e.exc_guard) = GUARD_RETURN]

\* An IRQ is taken and exc_irq runs to its end.
exc_irq ==
    /\ pc = "run"
    /\ \E i \in AsyncInputs :
          LET e == Latch(Machine, i)
          IN  Commit("irq", e, exc_irq_body(e))
    /\ UNCHANGED arm

\* A FIQ is taken and exc_fiq runs to its end.
exc_fiq ==
    /\ pc = "run"
    /\ \E i \in AsyncInputs, f \in FiqCases :
          LET e == LatchFiq(Latch(Machine, i), f)
          IN  Commit("fiq", e, exc_fiq_body(e))
    /\ UNCHANGED arm

\* An SError is taken and exc_serr runs to its end.
exc_serr ==
    /\ pc = "run"
    /\ \E i \in AsyncInputs :
          LET e == Latch(Machine, i)
          IN  Commit("serr", e, exc_serr_body(e))
    /\ UNCHANGED arm

\* The vector stub returns from the exception (eret) and the interrupted
\* code runs on.  Every register reset here is latched anew at the next
\* exception entry before a handler reads it, so the running state keeps
\* only what the handlers share: exc_guard and exc_count.
eret ==
    /\ pc = "handled"
    /\ pc' = "run"
    /\ handler' = "none"
    /\ entry' = NoEntry
    /\ out' = <<>>
    /\ in_gl12' = FALSE
    /\ ASPSR_GL1' = 0
    /\ SPSR_EL1' = Zero64
    /\ ELR_EL1' = Zero64
    /\ ESR_EL1' = Zero64
    /\ SPSR_EL12' = Zero64
    /\ ELR_EL12' = Zero64
    /\ ESR_EL12' = Zero64
    /\ L2C_ERR_STS' = Zero64
    /\ CNTP_CTL_EL0' = Zero64
    /\ CNTV_CTL_EL0' = Zero64
    /\ CNTP_CTL_EL02' = Zero64
    /\ CNTV_CTL_EL02' = Zero64
    /\ PMCR0' = [imode |-> "OFF", iact |-> FALSE]
    /\ UPMCR0' = [imode |-> "OFF"]
    /\ UPMSR' = [iact |-> FALSE]
    /\ regs' = Frame(Zero64)
    /\ UNCHANGED <<CurrentEL, ecore, mem, exc_guard, exc_count, arm>>

\* The guard control surface: the interrupted code writes g to exc_guard.
SetGuard ==
    /\ pc = "run"
    /\ \E g \in GuardValues :
          /\ exc_guard' = g
          /\ arm' = [base |-> exc_count, faults |-> 0, fired |-> FALSE]
    /\ UNCHANGED <<CurrentEL, ecore, mem, in_gl12, ASPSR_GL1, SPSR_EL1, ELR_EL1,
                   ESR_EL1, SPSR_EL12, ELR_EL12, ESR_EL12, L2C_ERR_STS,
                   CNTP_CTL_EL0, CNTV_CTL_EL0, CNTP_CTL_EL02, CNTV_CTL_EL02,
                   PMCR0, UPMCR0, UPMSR, regs, exc_count, pc, handler, entry, out>>

Next == exc_sync \/ exc_irq \/ exc_fiq \/ exc_serr \/ eret \/ SetGuard

Spec == Init /\ [][Next]_vars

------------------------------------------------------------------------------
\* The FIQ handler on its own: every combination of timer control values, and
\* the FIQ taken again on what the handler left.

\* Timer control values: disabled, enabled and not pending, enabled and
\* pending (0x5), masked (7), and 0x100000005, which has the low word of 0x5.
TimerValues == {Zero64, U64(1), U64(5), U64(7), <<0, 1, 0, 5>>}

\* A FIQ is taken with the timers in any combination and exc_fiq runs.
exc_fiq_timers ==
    /\ pc = "run"
    /\ \E i \in AsyncInputs, f \in FiqCases, p, v, p02, v02 \in TimerValues :
          LET t == [f EXCEPT !.cntp = p, !.cntv = v, !.cntp02 = p02, !.cntv02 = v02]
              e == LatchFiq(Latch(Machine, i), t)
          IN  Commit("fiq", e, exc_fiq_body(e))
    /\ UNCHANGED arm

\* The stub returns and the FIQ is taken again at the same place, the
\* sources as the previous run of exc_fiq left them.
exc_fiq_again ==
    /\ pc = "handled"
    /\ handler = "fiq"
    /\ LET e == Machine
       IN  Commit("fiq", e, exc_fiq_body(e))
    /\ UNCHANGED arm

NextFiq == exc_fiq_timers \/ exc_fiq_again \/ eret

SpecFiq == Init /\ [][NextFiq]_vars

------------------------------------------------------------------------------
\* The decoder on its own: get_exception_source on every selector nibble.

\* Bits of the saved status above the selector nibble: none, or DAIF.
SpsrUpper == {0, 960}

\* Values of the auxiliary status register: bit 0 and its neighbour.
AspsrValues == 0..3

\* get_exception_source(el12) is called with the status registers, the guest
\* context and the auxiliary status in any combination.
decode_source ==
    /\ pc = "run"
    /\ \E n \in 0..15, u \in SpsrUpper, g \in 0..15, el12 \in {0, 1},
          gl \in BOOLEAN, a \in AspsrValues :
          LET e == [Machine EXCEPT !.SPSR_EL1 = U64(u + n), !.SPSR_EL12 = U64(g),
                                   !.in_gl12 = gl, !.ASPSR_GL1 = a, !.el12 = el12]
              r == Return(Emit(e, Ev("call", "get_exception_source",
                                     get_exception_source(e, el12), Zero64)), "end")
          IN  Commit("source", e, r)
    /\ UNCHANGED arm

NextDecode == decode_source \/ eret

SpecDecode == Init /\ [][NextDecode]_vars

------------------------------------------------------------------------------
\* Vocabulary of the properties.  In a state with pc # "run" the variables
\* hold what the handler left, entry what it found, out what it did.

\* exc_sync has run.
SyncDone == handler = "sync" /\ pc \in {"handled", "halted"}

\* Positions of out holding an event with this op and what.
At(op, what) == {k \in 1..Len(out) : out[k].op = op /\ out[k].what = what}

\* Diagnostic output of the handler.
Prints == {k \in 1..Len(out) : out[k].op \in {"printf", "uart_puts"}}

\* The handler ended in a trampoline redirection.
Redirected == At("return", "el0_ret") \cup At("return", "el1_ret") # {}

\* Calls of the halt routine.
Halts == At("call", "flush_and_reboot")

\* The exception at entry is a hypervisor call from the guest level.
GuestHvc ==
    /\ entry.CurrentEL = 8
    /\ ~entry.in_gl12
    /\ entry.SPSR_EL1[4] % 16 = 5
    /\ (entry.ESR_EL1[3] \div 1024) % 64 = 22

\* ... with an immediate in 0x10..0x1f: a relayed guest fault.
Relayed == GuestHvc /\ entry.ESR_EL1[4] \in 16..31

\* ... with an immediate other than 0 and outside 0x10..0x1f.
UnknownCall == GuestHvc /\ entry.ESR_EL1[4] # 0 /\ entry.ESR_EL1[4] \notin 16..31

\* The exception at entry is a brk taken from the lowest privilege level.
BrkFromEL0 == entry.SPSR_EL1[4] % 16 = 0 /\ (entry.ESR_EL1[3] \div 1024) % 64 = 60

\* Guard mode and SILENT flag at entry.
EntryMode == entry.exc_guard % 256
EntrySilent == entry.exc_guard >= 256

\* The address of the fault the guard resolves: the guest's for a relayed
\* fault, the host's otherwise.
FaultAddr == IF Relayed THEN entry.ELR_EL12 ELSE entry.ELR_EL1

\* a + 4 modulo 2^64, limb by limb.
Plus4(a) ==
    IF a[4] + 4 < 65536 THEN <<a[1], a[2], a[3], a[4] + 4>>
    ELSE IF a[3] + 1 < 65536 THEN <<a[1], a[2], a[3] + 1, a[4] + 4 - 65536>>
    ELSE IF a[2] + 1 < 65536 THEN <<a[1], a[2] + 1, 0, a[4] + 4 - 65536>>
    ELSE <<(a[1] + 1) % 65536, 0, 0, a[4] + 4 - 65536>>

\* The first corrective or fatal act of the guard stage.
GuardActs ==
    At("store", "regs") \cup At("store", "exc_guard") \cup At("msr", "ELR_EL1")
        \cup Halts

\* The lines of a full register dump, in the order print_regs prints them
\* (ASPSR only in the guest context).
DumpLines ==
    <<"Exception taken from", "Running in", "MPIDR", "Registers", "x0-x3",
      "x4-x7", "x8-x11", "x12-x15", "x16-x19", "x20-x23", "x24-x27", "x28-x30",
      "PC", "SP", "SPSR_EL1", "FAR_EL1", "ESR_EL1", "L2C_ERR_STS", "L2C_ERR_ADR",
      "L2C_ERR_INF">>

\* out holds a full dump that ends before position k.
DumpBefore(k) ==
    /\ \A n \in 1..Len(DumpLines) :
          \E j \in At("printf", DumpLines[n]) :
             /\ j < k
             /\ n > 1 => \E i \in At("printf", DumpLines[n - 1]) : i < j
    /\ \E j \in At("printf", "MMU_ERR_STS") \cup At("printf", "E_MMU_ERR_STS") : j < k

------------------------------------------------------------------------------
\* C1.  Under SKIP, never rewritten by the caller, N synchronous faults that
\* are not consumed by a clean-return redirection advance exc_count by
\* exactly N, and each commits the return address (ELR at entry) + 4.
\* As stated, with the fault address read as ELR at entry:
C1_Original ==
    /\ exc_guard % 256 = 1 => exc_count = arm.base + arm.faults
    /\ (SyncDone /\ EntryMode = 1 /\ ~Redirected) =>
          /\ exc_count = entry.exc_count + 1
          /\ ELR_EL1 = Plus4(entry.ELR_EL1)

\* C1 as amended: the committed address is the fault address + 4, where the
\* fault address of a relayed guest fault is the guest-shadow return address
\* at entry; SKIP stays armed.
C1_SkipCountsAndResumes ==
    /\ exc_guard % 256 = 1 => exc_count = arm.base + arm.faults
    /\ (SyncDone /\ EntryMode = 1 /\ ~Redirected) =>
          /\ pc = "handled"
          /\ exc_count = entry.exc_count + 1
          /\ ELR_EL1 = Plus4(FaultAddr)
          /\ exc_guard = entry.exc_guard

\* The second of two faults under one arming of SKIP has been handled.
C1_Witness ==
    SyncDone /\ EntryMode = 1 /\ ~Redirected /\ arm.faults = 2 /\ exc_count = 2

\* C2.  Under MARK, with R the low 5 bits of the faulting instruction word,
\* slot R holds the poison constant after the handler, every other slot is
\* unchanged, and the committed return address is the fault address + 4.
C2_MarkPoisonsDestOnly ==
    (SyncDone /\ EntryMode = 2 /\ ~Redirected) =>
        LET R == mem[FaultAddr][2] % 32
        IN  /\ regs[R] = <<44238, 21781, 43949, 7658>>
            /\ \A i \in DOMAIN regs : i # R => regs[i] = entry.regs[i]
            /\ DOMAIN regs = DOMAIN entry.regs
            /\ ELR_EL1 = Plus4(FaultAddr)

\* A fault under MARK on an instruction that loads into x30.
C2_Witness ==
    /\ SyncDone /\ EntryMode = 2 /\ ~Redirected
    /\ mem[FaultAddr][2] % 32 = 30
    /\ regs[30] = <<44238, 21781, 43949, 7658>>
    /\ entry.regs[30] # regs[30]

\* C3.  RETURN is one-shot: the fault commits the saved link register as
\* return address, sets regs[0] to the poison constant and leaves the guard
\* OFF; a second synchronous fault without re-arming is fatal.
C3_ReturnOneShot ==
    /\ (SyncDone /\ EntryMode = 3 /\ ~Redirected) =>
          /\ pc = "handled"
          /\ ELR_EL1 = entry.regs[30]
          /\ regs[0] = <<44238, 21781, 43949, 7658>>
          /\ exc_guard % 256 = 0
    /\ (SyncDone /\ entry.arm.fired /\ ~Redirected) =>
          pc = "halted" /\ Cardinality(Halts) = 1

\* The second fault after a RETURN recovery, the caller not having re-armed.
C3_Witness ==
    SyncDone /\ entry.arm.fired /\ ~Redirected /\ pc = "halted" /\ exc_count = 1

\* C4.  A synchronous exception not consumed by a clean-return redirection
\* and handled with the guard OFF calls flush_and_reboot exactly once,
\* leaves exc_count alone and commits no resolved return address.
C4_OffIsFatal ==
    (SyncDone /\ EntryMode = 0 /\ ~Redirected) =>
        /\ pc = "halted"
        /\ Cardinality(Halts) = 1
        /\ Halts = {Len(out)}
        /\ exc_count = entry.exc_count
        /\ At("msr", "ELR_EL1") = {}
        /\ ELR_EL1 = FaultAddr

\* A data abort at the current level with the guard OFF.
C4_Witness ==
    /\ SyncDone /\ EntryMode = 0 /\ ~Redirected /\ pc = "halted"
    /\ (entry.ESR_EL1[3] \div 1024) % 64 = 37
    /\ ~EntrySilent

\* C5.  A brk taken from the lowest privilege level is resolved by writing
\* 0x09 to the status register and el0_ret to the return address, whatever
\* exc_guard holds: nothing is printed, exc_guard, exc_count and the
\* register context are unchanged and the halt routine is not called.
C5_CleanReturnFromEL0 ==
    (SyncDone /\ BrkFromEL0) =>
        /\ pc = "handled"
        /\ SPSR_EL1 = <<0, 0, 0, 9>>
        /\ ELR_EL1 = el0_ret
        /\ Prints = {}
        /\ Halts = {}
        /\ Len(out) = 3 /\ out[3].op = "return"
        /\ exc_guard = entry.exc_guard
        /\ exc_count = entry.exc_count
        /\ regs = entry.regs

\* The clean return with the guard OFF.
C5_Witness ==
    SyncDone /\ BrkFromEL0 /\ entry.exc_guard = 0 /\ ELR_EL1 = el0_ret

\* What the guard stage leaves in the return-address register for a fault
\* at address a taken with link register lr: the resolved address, or a
\* itself on the fatal path.
Resolved(a, lr) ==
    CASE EntryMode \in {1, 2} -> Plus4(a)
      [] EntryMode = 3 -> lr
      [] OTHER -> a

\* C6.  An unknown hypervisor call from the guest level is reported, and for
\* every value of exc_guard the status and return-address registers are not
\* modified and the halt routine is not called.
C6_Original ==
    (SyncDone /\ UnknownCall) =>
        /\ At("printf", "Unknown HVC") # {}
        /\ SPSR_EL1 = entry.SPSR_EL1
        /\ ELR_EL1 = entry.ELR_EL1
        /\ pc # "halted"

\* C6 as amended: the call is reported (also under SILENT) and the status
\* register is not modified, but the handler goes on to the guard stage as
\* for a direct fault: SKIP, MARK and RETURN commit their resolved address to
\* the return-address register, any other mode calls the halt routine.
C6_UnknownCallFallsThrough ==
    (SyncDone /\ UnknownCall) =>
        /\ Cardinality(At("printf", "Unknown HVC")) = 1
        /\ SPSR_EL1 = entry.SPSR_EL1
        /\ At("msr", "SPSR_EL2") \cup At("msr", "ELR_EL2") = {}
        /\ ELR_EL1 = Resolved(entry.ELR_EL1, entry.regs[30])
        /\ (pc = "halted") = (EntryMode \notin {1, 2, 3})
        /\ (pc = "handled") => At("msr", "ELR_EL1") = {Len(out) - 2}

\* hvc #0x20 from the guest with the guard OFF and SILENT set: reported, fatal.
C6_Witness ==
    /\ SyncDone /\ UnknownCall /\ entry.ESR_EL1[4] = 32
    /\ entry.exc_guard = 256
    /\ pc = "halted"
    /\ At("printf", "Unknown HVC") # {}

\* C7.  With SILENT set at entry exc_sync emits no diagnostic output, on
\* every path.
C7_SilentPrintsNothing ==
    (SyncDone /\ EntrySilent) => Prints = {}

\* C8.  A relayed guest fault: the host status and return-address registers
\* are set to the guest-shadow values at entry, the report reads the guest
\* shadows (el12 = 1), and the handler goes on to the report and guard stage.
C8_RelayCopiesGuestShadow ==
    (SyncDone /\ Relayed) =>
        /\ \E i \in At("msr", "SPSR_EL2"), j \in At("msr", "ELR_EL2") :
              /\ out[i].val = entry.SPSR_EL12
              /\ out[j].val = entry.ELR_EL12
              /\ \A k \in GuardActs \cup At("printf", "Exception taken from") :
                    i < k /\ j < k
        /\ SPSR_EL1 = entry.SPSR_EL12
        /\ ELR_EL1 = Resolved(entry.ELR_EL12, entry.regs[30])
        /\ ~Redirected
        /\ GuardActs # {}
        /\ ~EntrySilent =>
              /\ Cardinality(At("printf", "EL1 Exception")) = 1
              /\ \E k \in At("printf", "PC") : out[k].val = entry.ELR_EL12
              /\ \E k \in At("printf", "SPSR_EL1") : out[k].val = entry.SPSR_EL12
              /\ \E k \in At("printf", "ESR_EL1") : out[k].val = entry.ESR_EL12

\* hvc #0x1f relayed under SKIP, not silent, guest and host values differing.
C8_Witness ==
    /\ SyncDone /\ Relayed /\ entry.ESR_EL1[4] = 31
    /\ entry.exc_guard = 1
    /\ entry.SPSR_EL12 # entry.SPSR_EL1
    /\ entry.ESR_EL12 # entry.ESR_EL1
    /\ SPSR_EL1 = entry.SPSR_EL12
    /\ pc = "handled"

\* C9.  In every invocation of exc_sync, whatever exc_guard holds, a full
\* register dump precedes every corrective action and the halt.
C9_Original ==
    (SyncDone /\ ~Redirected) => \A k \in GuardActs : DumpBefore(k)

\* C9 as amended: the dump precedes every corrective action and the halt
\* exactly when SILENT is clear at entry; with SILENT set no dump is printed.
C9_DumpBeforeGuardUnlessSilent ==
    (SyncDone /\ ~Redirected) =>
        /\ GuardActs # {}
        /\ ~EntrySilent => \A k \in GuardActs : DumpBefore(k)
        /\ EntrySilent => \A n \in 1..Len(DumpLines) : At("printf", DumpLines[n]) = {}

\* A dump followed by the poison write under MARK.
C9_Witness ==
    /\ SyncDone /\ entry.exc_guard = 2
    /\ \E k \in At("store", "regs") : DumpBefore(k)

\* C10.  exc_count never decreases; it grows by one in exactly the exc_sync
\* invocations that return through a SKIP, MARK or RETURN resolution, and no
\* other step changes it.
C10_CountsRecoveries ==
    [][exc_count' = exc_count +
          (IF /\ pc = "run" /\ handler' = "sync"
              /\ entry'.exc_guard % 256 \in {1, 2, 3}
              /\ out'[Len(out')].what \notin {"el0_ret", "el1_ret"}
           THEN 1 ELSE 0)]_vars

\* A FIQ handled after two recoveries, the count still two.
C10_Witness ==
    handler = "fiq" /\ pc = "handled" /\ exc_count = 2 /\ entry.exc_count = 2

\* C11.  No handler arms or re-modes the guard: the only write a handler makes
\* to exc_guard is the reset to OFF of a RETURN recovery.  exc_sync entered
\* under SKIP or MARK, and every exc_irq, exc_fiq and exc_serr, leave the whole
\* exc_guard cell (mode and SILENT bit) as found.
C11_HandlersKeepGuard ==
    /\ handler # "none" =>
          \/ exc_guard = entry.exc_guard /\ At("store", "exc_guard") = {}
          \/ /\ handler = "sync" /\ EntryMode = 3 /\ ~Redirected
             /\ exc_guard = 0
             /\ Cardinality(At("store", "exc_guard")) = 1
             /\ \A k \in At("store", "exc_guard") : out[k].val = <<0, 0, 0, 0>>
    /\ (SyncDone /\ EntryMode \in {1, 2}) => exc_guard = entry.exc_guard
    /\ handler \in {"irq", "fiq", "serr"} => exc_guard = entry.exc_guard

\* A recovery under MARK with SILENT set that leaves both in place, after an
\* earlier recovery.
C11_Witness ==
    /\ SyncDone /\ entry.exc_guard = 258 /\ exc_guard = 258
    /\ At("store", "regs") # {} /\ exc_count = 2

\* C12.  A hypervisor call from the guest level with immediate 0 is resolved
\* by writing 0x09 to the host status register and el1_ret to the return
\* address and returning at once, whatever exc_guard holds: nothing is
\* printed, exc_guard, exc_count and the register context are unchanged and
\* the halt routine is not called.
C12_GuestCleanReturn ==
    (SyncDone /\ GuestHvc /\ entry.ESR_EL1[4] = 0) =>
        /\ pc = "handled"
        /\ SPSR_EL1 = <<0, 0, 0, 9>>
        /\ ELR_EL1 = <<0, 0, 2049, 512>>
        /\ Len(out) = 3
        /\ out[1].op = "msr" /\ out[1].what = "SPSR_EL2"
        /\ out[2].op = "msr" /\ out[2].what = "ELR_EL2"
        /\ out[3].op = "return" /\ out[3].what = "el1_ret"
        /\ Prints = {}
        /\ Halts = {}
        /\ exc_guard = entry.exc_guard
        /\ exc_count = entry.exc_count
        /\ regs = entry.regs

\* hvc #0 from the guest with the guard OFF: redirected, not fatal.
C12_Witness ==
    /\ SyncDone /\ GuestHvc /\ entry.ESR_EL1[4] = 0
    /\ entry.exc_guard = 0 /\ pc = "handled" /\ out[3].what = "el1_ret"

\* What exc_fiq has done about timer control register reg, whose masking
\* line is line: examined and found at 0x5, one line and then one write of 7;
\* otherwise no line, no write, the value as found.
TimerRule(reg, line, examined) ==
    IF examined /\ entry[reg] = <<0, 0, 0, 5>>
    THEN /\ Machine[reg] = <<0, 0, 0, 7>>
         /\ Cardinality(At("msr", reg)) = 1
         /\ Cardinality(At("uart_puts", line)) = 1
         /\ \A k \in At("msr", reg) :
               out[k].val = <<0, 0, 0, 7>> /\ At("uart_puts", line) = {k - 1}
    ELSE /\ Machine[reg] = entry[reg]
         /\ At("msr", reg) = {}
         /\ At("uart_puts", line) = {}

\* C13.  For each timer control register exc_fiq examines (CNTP_CTL_EL0,
\* CNTV_CTL_EL0 and, only when in_el2, CNTP_CTL_EL02 and CNTV_CTL_EL02): found
\* at 0x5 it is written 7 and exactly one masking line is emitted for it;
\* found at any other value it is not written and no line is emitted, so a
\* second run on the resulting 7 writes nothing more.
C13_TimerMasking ==
    handler = "fiq" =>
        /\ TimerRule("CNTP_CTL_EL0", "  PHYS timer IRQ, masking", TRUE)
        /\ TimerRule("CNTV_CTL_EL0", "  VIRT timer IRQ, masking", TRUE)
        /\ TimerRule("CNTP_CTL_EL02", "  PHYS EL02 timer IRQ, masking",
                     entry.CurrentEL = 8)
        /\ TimerRule("CNTV_CTL_EL02", "  VIRT EL02 timer IRQ, masking",
                     entry.CurrentEL = 8)

\* The second run at the hypervisor level after a run that masked all four
\* timers and the PMC: every timer found at 7, nothing written.
C13_Witness ==
    /\ handler = "fiq" /\ entry.CurrentEL = 8
    /\ entry.PMCR0.imode = "OFF"
    /\ entry.CNTP_CTL_EL0 = <<0, 0, 0, 7>> /\ entry.CNTV_CTL_EL0 = <<0, 0, 0, 7>>
    /\ entry.CNTP_CTL_EL02 = <<0, 0, 0, 7>> /\ entry.CNTV_CTL_EL02 = <<0, 0, 0, 7>>
    /\ CNTP_CTL_EL0 = <<0, 0, 0, 7>> /\ CNTV_CTL_EL02 = <<0, 0, 0, 7>>
    /\ Len(out) = 2

\* C14.  exc_irq, exc_fiq and exc_serr are advisory: for every value of
\* exc_guard they return without calling the halt routine and without
\* changing the return-address register, the saved status register, the
\* register context, exc_guard or exc_count; exc_serr prints its banner and
\* the register dump exactly when SILENT is clear.
C14_AsyncHandlersAdvisory ==
    /\ handler \in {"irq", "fiq", "serr"} =>
          /\ pc = "handled"
          /\ Halts = {}
          /\ out[Len(out)].op = "return"
          /\ ELR_EL1 = entry.ELR_EL1
          /\ SPSR_EL1 = entry.SPSR_EL1
          /\ regs = entry.regs
          /\ exc_guard = entry.exc_guard
          /\ exc_count = entry.exc_count
          /\ \A k \in 1..Len(out) :
                ~(out[k].op \in {"msr", "store"} /\
                  out[k].what \in {"ELR_EL1", "ELR_EL2", "SPSR_EL1", "SPSR_EL2",
                                   "regs", "exc_guard"})
    /\ handler = "serr" =>
          /\ ~EntrySilent =>
                /\ At("printf", "Exception: SError") = {1}
                /\ DumpBefore(Len(out))
          /\ EntrySilent => Prints = {}

\* An SError with the guard armed to RETURN and one earlier recovery counted:
\* reported, the guard still armed, the count still one.
C14_Witness ==
    /\ handler = "serr" /\ entry.exc_guard = 3 /\ exc_guard = 3
    /\ exc_count = 1 /\ DumpBefore(Len(out)) /\ pc = "handled"

\* C15.  For every selector nibble of the saved status register (the host
\* copy, or the guest shadow when el12 is set) get_exception_source returns
\* the table's label for the nibbles 0x0, 0x4, 0x5, 0x8, 0x9 and "?" for every
\* other nibble; the labels are the GL ones exactly when the core is in the
\* guest context and bit 0 of the auxiliary status register is set, the EL
\* ones otherwise.
C15_SourceLabels ==
    handler = "source" =>
        LET spsr == IF entry.el12 = 1 THEN entry.SPSR_EL12 ELSE entry.SPSR_EL1
            n    == spsr[4] % 16
            gl   == entry.in_gl12 /\ entry.ASPSR_GL1 % 2 = 1
        IN  out[1].txt =
               CASE n = 0 -> IF gl THEN "GL0t" ELSE "EL0t"
                 [] n = 4 -> IF gl THEN "GL1t" ELSE "EL1t"
                 [] n = 5 -> IF gl THEN "GL1h" ELSE "EL1h"
                 [] n = 8 -> IF gl THEN "GL2t" ELSE "EL2t"
                 [] n = 9 -> IF gl THEN "GL2h" ELSE "EL2h"
                 [] OTHER -> "?"

\* The guest shadow decoded in the guest context, the host copy holding a
\* different nibble.
C15_Witness ==
    /\ handler = "source" /\ entry.el12 = 1
    /\ entry.in_gl12 /\ entry.ASPSR_GL1 = 3
    /\ entry.SPSR_EL12[4] % 16 = 5 /\ entry.SPSR_EL1[4] % 16 = 9
    /\ out[1].txt = "GL1h"

\* C16.  The redirections of the trap relay (to el0_ret, to el1_ret, and the
\* relay copy of the guest shadows) are taken only at the hypervisor level:
\* with in_el2 false every synchronous exception goes through the barriers
\* to the report and guard stage and none of the three is performed.
C16_RelayOnlyAtEL2 ==
    (SyncDone /\ entry.CurrentEL # 8) =>
        /\ ~Redirected
        /\ At("msr", "SPSR_EL1") \cup At("msr", "SPSR_EL2") \cup At("msr", "ELR_EL2") = {}
        /\ At("sysop", "isb; dsb sy") # {}
        /\ GuardActs # {}

\* What print_regs leaves of machine state m apart from its output and the
\* L2C error status.
Untouched(m) ==
    [m EXCEPT !.out = <<>>, !.L2C_ERR_STS = Zero64]

\* C17.  print_regs changes no state but the L2C error status register: once
\* per call it writes back to it the value it read and printed, after the
\* three L2C lines and before the core-type error registers are printed, and
\* it leaves the register context, exc_guard, exc_count and the status and
\* return-address registers alone.  In an exc_sync or exc_serr invocation the
\* write happens exactly when the dump is printed, which for exc_serr and for
\* an exc_sync that reaches the report stage is when SILENT is clear.
C17_DumpOnlyAcksL2C ==
    (handler \in {"sync", "serr"}) =>
        LET acks  == At("msr", "L2C_ERR_STS")
            dumps == At("printf", "L2C_ERR_STS")
            first == At("printf", "Exception taken from")
            last  == At("printf", "MMU_ERR_STS") \cup At("printf", "E_MMU_ERR_STS")
        IN  /\ Cardinality(acks) <= 1
            /\ Cardinality(acks) = Cardinality(dumps)
            /\ (acks # {}) = (~EntrySilent /\ ~Redirected)
            /\ \A k \in acks :
                  /\ out[k].val = entry.L2C_ERR_STS
                  /\ dumps = {k - 3}
                  /\ out[k - 3].val = out[k].val
                  /\ At("printf", "L2C_ERR_ADR") = {k - 2}
                  /\ At("printf", "L2C_ERR_INF") = {k - 1}
                  /\ out[k + 1].op = "printf"
                  /\ out[k + 1].what \in {"LSU_ERR_STS", "E_LSU_ERR_STS"}
                  /\ last = {k + 3}
                  /\ \A i \in first : \A j \in i..(k + 3) :
                        j # k => out[j].op = "printf"
            /\ \A el12 \in {0, 1} :
                  Untouched(print_regs([entry EXCEPT !.out = <<>>], el12))
                      = Untouched(entry)
            /\ handler = "serr" =>
                  /\ regs = entry.regs
                  /\ exc_guard = entry.exc_guard /\ exc_count = entry.exc_count
                  /\ SPSR_EL1 = entry.SPSR_EL1 /\ ELR_EL1 = entry.ELR_EL1

\* An SError reported with latched L2C error bits: they are printed, written
\* back and thereby cleared.
C17_Witness ==
    /\ handler = "serr" /\ ~EntrySilent
    /\ entry.L2C_ERR_STS = <<0, 0, 0, 3>>
    /\ \E k \in At("msr", "L2C_ERR_STS") : out[k].val = <<0, 0, 0, 3>>
    /\ L2C_ERR_STS = <<0, 0, 0, 0>>

\* C18.  Under MARK the poison write lands inside the register context, at
\* an index in 0..30, whatever the low 5 bits of the faulting instruction
\* word are: no slot outside the 31 saved registers is written.
C18_MarkWritesSavedRegister ==
    (SyncDone /\ EntryMode = 2) =>
        /\ \A k \in At("store", "regs") : out[k].val[4] \in 0..30
        /\ \A i \in DOMAIN regs : i > 30 => regs[i] = entry.regs[i]

\* C19.  A relayed guest fault handled under SKIP or MARK commits the
\* guest-shadow return address at entry + 4, not the host return address at
\* entry + 4: the guard reads the return-address register after the relay
\* copy has rewritten it.  Under MARK the instruction decoded is the one at
\* the guest address.
C19_RelayedFaultResumesGuest ==
    (SyncDone /\ Relayed /\ EntryMode \in {1, 2}) =>
        /\ pc = "handled"
        /\ ELR_EL1 = Plus4(entry.ELR_EL12)
        /\ ELR_EL1 # Plus4(entry.ELR_EL1)
        /\ \E j \in At("msr", "ELR_EL2") :
              /\ out[j].val = entry.ELR_EL12
              /\ \A k \in At("msr", "ELR_EL1") :
                    j < k /\ out[k].val = Plus4(entry.ELR_EL12)
        /\ Cardinality(At("msr", "ELR_EL1")) = 1
        /\ EntryMode = 2 =>
              \A k \in At("store", "regs") :
                 out[k].val[4] = mem[entry.ELR_EL12][2] % 32

\* hvc #0x10 relayed under MARK with the guest return address 0x1fffffffc:
\* the committed address is 0x200000000.
C19_Witness ==
    /\ SyncDone /\ Relayed /\ entry.ESR_EL1[4] = 16 /\ EntryMode = 2
    /\ entry.ELR_EL12 = <<0, 1, 65535, 65532>>
    /\ ELR_EL1 = <<0, 2, 0, 0>>
    /\ mem[entry.ELR_EL12] # mem[entry.ELR_EL1]

\* The three ways exc_sync ends.
EndsRedirected ==
    /\ pc = "handled" /\ Redirected
    /\ ELR_EL1 \in {el0_ret, el1_ret}
    /\ exc_count = entry.exc_count
    /\ Halts = {}

EndsRecovered ==
    /\ pc = "handled" /\ ~Redirected
    /\ Cardinality(At("msr", "ELR_EL1")) = 1
    /\ \A k \in At("msr", "ELR_EL1") : out[k].val = ELR_EL1
    /\ ELR_EL1 = Resolved(FaultAddr, entry.regs[30])
    /\ EntryMode \in {1, 2, 3}
    /\ exc_count = entry.exc_count + 1
    /\ Halts = {}

EndsHalted ==
    /\ pc = "halted" /\ ~Redirected
    /\ Cardinality(Halts) = 1
    /\ At("msr", "ELR_EL1") = {}
    /\ exc_count = entry.exc_count

ExactlyOneEnd ==
    /\ EndsRedirected \/ EndsRecovered \/ EndsHalted
    /\ ~(EndsRedirected /\ EndsRecovered)
    /\ ~(EndsRedirected /\ EndsHalted)
    /\ ~(EndsRecovered /\ EndsHalted)

\* C20.  Every invocation of exc_sync ends in exactly one of a trampoline
\* redirection, a guard recovery (resolved address committed, exc_count
\* incremented) or the halt routine, and never returns to the stub with the
\* return-address register still holding the address it held at entry.
C20_Original ==
    SyncDone =>
        /\ ExactlyOneEnd
        /\ pc = "handled" => ELR_EL1 # entry.ELR_EL1

\* C20 as amended: exactly one of the three outcomes, and exc_sync never
\* returns to the stub without having written the return-address register.
\* After SKIP or MARK the register differs from the fault address; it holds
\* the value it held at entry only after a RETURN recovery whose saved link
\* register is that address.
C20_ThreeOutcomes ==
    SyncDone =>
        /\ ExactlyOneEnd
        /\ pc = "handled" =>
              /\ At("msr", "ELR_EL1") \cup At("msr", "ELR_EL2") # {}
              /\ (~Redirected /\ EntryMode \in {1, 2}) => ELR_EL1 # FaultAddr
              /\ ELR_EL1 = entry.ELR_EL1 =>
                    /\ EntryMode = 3 /\ ~Redirected
                    /\ entry.regs[30] = entry.ELR_EL1
                    /\ exc_guard = 0

\* A RETURN recovery from a fault at the instruction the link register
\* points to: the committed address is the fault address.
C20_Witness ==
    /\ SyncDone /\ EntryMode = 3 /\ EndsRecovered
    /\ entry.regs[30] = entry.ELR_EL1
    /\ ELR_EL1 = entry.ELR_EL1

====
